---- MODULE Spec2Model ----
(***************************************************************************)
(* Model of ImageStitcher.execute (nodes/ImageStitcher/ImageStitcher.node.ts)*)
(* and of its helper parseBackgroundColor.                                 *)
(*                                                                         *)
(* Strings the code parses (sourceKeys, backgroundColor) are sequences of  *)
(* one-character strings, so that split, trim, replace and parseInt are    *)
(* computed character by character.  Strings the code only tests for      *)
(* emptiness and copies (bucket names, the destination key) are TLA+       *)
(* strings.  The object store and the imaging library are the environment: *)
(* env.objects is the set of objects a get can deliver, env.faults says    *)
(* whether resize/encode and put can fail.                                 *)
(***************************************************************************)
EXTENDS Integers, Sequences, FiniteSets, TLC

VARIABLES
    items,          \* this.getInputData() with each item's resolved parameters
    continueOnFail, \* this.continueOnFail()
    env,            \* what the object store and the imaging library can answer
    pc,             \* "item" | "fetch" | "compose" | "publish" | "done"
    itemIndex,      \* loop variable of the batch loop (0-based, as in the code)
    keys,           \* parsed source keys of the current item
    dimensions,     \* dimensions[] of the current item
    canvasWidth,
    canvasHeight,
    bg,             \* parsed background colour
    composites,     \* overlay placements {top, left}
    offsetTop,      \* running vertical offset
    returnData,     \* records pushed so far
    storeLog,       \* calls issued to the object store, in order
    thrown,         \* <<>> or <<error>>: the error execute propagated
    returned        \* TRUE once execute returned [returnData]

vars == <<items, continueOnFail, env, pc, itemIndex, keys, dimensions, canvasWidth,
          canvasHeight, bg, composites, offsetTop, returnData, storeLog, thrown,
          returned>>

----------------------------------------------------------------------------
(* Bounds of the model *)

MaxItems == 3
MaxKeys == 2
MaxWidth == 2
MaxHeight == 2
MaxSpacing == 1
MaxStrLen == 4
MaxListLen == 2
MaxElemLen == 2
MaxColorLen == 3

----------------------------------------------------------------------------
(* Characters and strings *)

Whitespace == {" ", "\t", "\n", "\r"}

RECURSIVE TrimStart(_)
TrimStart(s) ==
    IF s # <<>> /\ Head(s) \in Whitespace THEN TrimStart(Tail(s)) ELSE s

RECURSIVE TrimEnd(_)
TrimEnd(s) ==
    IF s # <<>> /\ s[Len(s)] \in Whitespace THEN TrimEnd(SubSeq(s, 1, Len(s) - 1)) ELSE s

\* String.prototype.trim
TrimStartOnly(s) == TrimStart(s)
Trim(s) == TrimEnd(TrimStart(s))

\* String.prototype.split(/\r?\n|,/): the fields between separators, empty ones kept
RECURSIVE SplitFrom(_, _, _, _)
SplitFrom(s, i, cur, acc) ==
    IF i > Len(s) THEN Append(acc, cur)
    ELSE IF s[i] = "\r" /\ i < Len(s) /\ s[i + 1] = "\n"
         THEN SplitFrom(s, i + 2, <<>>, Append(acc, cur))
    ELSE IF s[i] = "\n" \/ s[i] = ","
         THEN SplitFrom(s, i + 1, <<>>, Append(acc, cur))
    ELSE SplitFrom(s, i + 1, Append(cur, s[i]), acc)

Split(s) == SplitFrom(s, 1, <<>>, <<>>)

\* .map((s) => s.trim())
MapTrim(l) == [i \in 1..Len(l) |-> Trim(l[i])]

\* .filter((s) => s.length > 0)
RECURSIVE FilterNonEmpty(_)
FilterNonEmpty(l) ==
    IF l = <<>> THEN <<>>
    ELSE IF Len(Head(l)) > 0 THEN <<Head(l)>> \o FilterNonEmpty(Tail(l))
    ELSE FilterNonEmpty(Tail(l))

\* String(n) for a non-negative integer
DigitChar(d) == CASE d = 0 -> "0" [] d = 1 -> "1" [] d = 2 -> "2" [] d = 3 -> "3"
                  [] d = 4 -> "4" [] d = 5 -> "5" [] d = 6 -> "6" [] d = 7 -> "7"
                  [] d = 8 -> "8" [] OTHER -> "9"
RECURSIVE ToDecimal(_)
ToDecimal(n) == IF n < 10 THEN <<DigitChar(n)>>
                ELSE Append(ToDecimal(n \div 10), DigitChar(n % 10))

\* The sourceKeys parameter: kind "array" (list), "string" (str), "object" (an
\* object whose keys array is list), "number" (num, coerced by String) or "null".
ParseKeys(p) ==
    CASE p.kind = "array" -> FilterNonEmpty(MapTrim(p.list))
      [] p.kind = "string" -> FilterNonEmpty(MapTrim(Split(p.str)))
      [] p.kind = "object" -> FilterNonEmpty(MapTrim(p.list))
      [] p.kind = "number" -> FilterNonEmpty(MapTrim(Split(ToDecimal(p.num))))
      [] OTHER -> <<>>

----------------------------------------------------------------------------
(* parseBackgroundColor *)

HexDigits == {"0", "1", "2", "3", "4", "5", "6", "7", "8", "9",
              "a", "b", "c", "d", "e", "f", "A", "B", "C", "D", "E", "F"}

HexValue(c) ==
    CASE c = "0" -> 0 [] c = "1" -> 1 [] c = "2" -> 2 [] c = "3" -> 3 [] c = "4" -> 4
      [] c = "5" -> 5 [] c = "6" -> 6 [] c = "7" -> 7 [] c = "8" -> 8 [] c = "9" -> 9
      [] c \in {"a", "A"} -> 10 [] c \in {"b", "B"} -> 11 [] c \in {"c", "C"} -> 12
      [] c \in {"d", "D"} -> 13 [] c \in {"e", "E"} -> 14 [] OTHER -> 15

\* A number or NaN
Num(n) == [nan |-> FALSE, val |-> n]
NaN == [nan |-> TRUE, val |-> 0]

\* parseInt(s, 16) of a two-character slice: leading white space is skipped, a
\* sign and a 0x prefix are accepted, the digits up to the first character that
\* is no hex digit are read, and no digit at all gives NaN.
ParseInt16(s) ==
    LET c1 == s[1]
        c2 == s[2]
    IN  IF c1 \in Whitespace
        THEN IF c2 \in HexDigits THEN Num(HexValue(c2)) ELSE NaN
        ELSE IF c1 = "+"
        THEN IF c2 \in HexDigits THEN Num(HexValue(c2)) ELSE NaN
        ELSE IF c1 = "-"
        THEN IF c2 \in HexDigits THEN Num(0 - HexValue(c2)) ELSE NaN
        ELSE IF c1 = "0" /\ c2 \in {"x", "X"} THEN NaN
        ELSE IF c1 \in HexDigits
        THEN IF c2 \in HexDigits THEN Num(16 * HexValue(c1) + HexValue(c2))
             ELSE Num(HexValue(c1))
        ELSE NaN

\* String.prototype.toLowerCase, on the letters of "transparent"
LowerChar(c) ==
    CASE c = "T" -> "t" [] c = "R" -> "r" [] c = "A" -> "a" [] c = "N" -> "n"
      [] c = "S" -> "s" [] c = "P" -> "p" [] c = "E" -> "e" [] c = "F" -> "f"
      [] OTHER -> c
ToLowerCase(s) == [i \in 1..Len(s) |-> LowerChar(s[i])]

\* input.replace('#', ''): the first '#' is removed, wherever it is
RECURSIVE RemoveFirstHash(_)
RemoveFirstHash(s) ==
    IF s = <<>> THEN <<>>
    ELSE IF Head(s) = "#" THEN Tail(s)
    ELSE <<Head(s)>> \o RemoveFirstHash(Tail(s))

Transparent == <<"t", "r", "a", "n", "s", "p", "a", "r", "e", "n", "t">>

\* alpha is kept as a numerator over 255: a255 = 255 is alpha 1
AlphaOne == Num(255)

parseBackgroundColor(input) ==
    IF input = <<>> \/ ToLowerCase(input) = Transparent
    THEN [r |-> Num(0), g |-> Num(0), b |-> Num(0), a255 |-> Num(0)]
    ELSE LET hex == Trim(RemoveFirstHash(input))
         IN  IF Len(hex) = 6 \/ Len(hex) = 8
             THEN [r |-> ParseInt16(SubSeq(hex, 1, 2)),
                   g |-> ParseInt16(SubSeq(hex, 3, 4)),
                   b |-> ParseInt16(SubSeq(hex, 5, 6)),
                   a255 |-> IF Len(hex) = 8 THEN ParseInt16(SubSeq(hex, 7, 8))
                            ELSE AlphaOne]
             ELSE [r |-> Num(255), g |-> Num(255), b |-> Num(255), a255 |-> AlphaOne]

----------------------------------------------------------------------------
(* Imaging and layout *)

Max2(a, b) == IF a >= b THEN a ELSE b

\* Math.max(...dimensions.map((d) => d.width))
RECURSIVE MaxSourceWidth(_)
MaxSourceWidth(dims) ==
    IF Len(dims) = 1 THEN dims[1].width
    ELSE Max2(dims[1].width, MaxSourceWidth(Tail(dims)))

\* targetWidth of the request (canvasWidth is the widest source here)
TargetWidth(r, widest) ==
    IF r.normalizeWidth
    THEN (IF r.targetWidth # 0 /\ r.targetWidth > 0 THEN r.targetWidth ELSE widest)
    ELSE widest

\* sharp(...).resize({ width, withoutEnlargement }): the width becomes the target
\* and the height follows the aspect ratio, rounded to the nearest pixel; with
\* withoutEnlargement an image narrower than the target is left as it is.
ResizeAlwaysEnlarges(d, width, withoutEnlargement) ==
    [width |-> width, height |-> Max2(1, (2 * d.height * width + d.width) \div (2 * d.width))]
Resize(d, width, withoutEnlargement) ==
    IF withoutEnlargement /\ d.width < width THEN d
    ELSE [width |-> width,
          height |-> Max2(1, (2 * d.height * width + d.width) \div (2 * d.width))]

\* The normalization loop
Normalize(r, dims, targetWidth) ==
    IF r.normalizeWidth
    THEN [i \in 1..Len(dims) |->
            IF dims[i].width # targetWidth
            THEN Resize(dims[i], targetWidth, ~r.allowUpscale)
            ELSE dims[i]]
    ELSE dims

\* dimensions.reduce((acc, d) => acc + d.height, 0)
RECURSIVE ReduceHeights(_, _)
ReduceHeights(dims, acc) ==
    IF dims = <<>> THEN acc ELSE ReduceHeights(Tail(dims), acc + Head(dims).height)

CanvasHeightSpacingPerImage(dims, n, spacing) == ReduceHeights(dims, 0) + Max2(0, n * spacing)
CanvasHeight(dims, n, spacing) == ReduceHeights(dims, 0) + Max2(0, (n - 1) * spacing)

\* The horizontal offset of one image; Math.floor is \div with a positive divisor
AlignLeftMirrored(alignment, cw, width) ==
    IF alignment = "center" THEN (cw - width) \div 2
    ELSE IF alignment = "right" THEN width - cw
    ELSE 0
AlignLeft(alignment, cw, width) ==
    IF alignment = "center" THEN (cw - width) \div 2
    ELSE IF alignment = "right" THEN cw - width
    ELSE 0

\* The placement loop, from image i on: the overlays and the final offsetTop
RECURSIVE PlaceFrom(_, _, _, _, _)
PlaceFrom(r, dims, cw, i, st) ==
    IF i > Len(dims) THEN st
    ELSE PlaceFrom(r, dims, cw, i + 1,
           [composites |-> Append(st.composites,
                                  [top |-> st.offsetTop,
                                   left |-> AlignLeft(r.alignment, cw, dims[i].width)]),
            offsetTop |-> st.offsetTop + dims[i].height
                          + (IF i < Len(dims) THEN r.spacing ELSE 0)])

Place(r, dims, cw) == PlaceFrom(r, dims, cw, 1, [composites |-> <<>>, offsetTop |-> 0])

MimeType(format) ==
    CASE format = "png" -> "image/png"
      [] format = "jpeg" -> "image/jpeg"
      [] format = "webp" -> "image/webp"
      [] OTHER -> "image/png"

\* destinationKey || `stitched.${format}`
FileName(r) ==
    IF r.destinationKey # "" THEN r.destinationKey
    ELSE CASE r.format = "png" -> "stitched.png"
           [] r.format = "jpeg" -> "stitched.jpeg"
           [] OTHER -> "stitched.webp"

----------------------------------------------------------------------------
(* Requests: the parameters getNodeParameter resolves for one item *)

StrParam(s) == [kind |-> "string", str |-> s, list |-> <<>>, num |-> 0]
ArrayParam(l) == [kind |-> "array", str |-> <<>>, list |-> l, num |-> 0]
ObjectParam(l) == [kind |-> "object", str |-> <<>>, list |-> l, num |-> 0]
NumberParam(n) == [kind |-> "number", str |-> <<>>, list |-> <<>>, num |-> n]
NullParam == [kind |-> "null", str |-> <<>>, list |-> <<>>, num |-> 0]

\* The defaults of the parameter schema, with a source bucket and one key
DefaultRequest ==
    [sourceBucket |-> "src",
     sourceKeys |-> StrParam(<<"a">>),
     spacing |-> 0,
     alignment |-> "left",
     normalizeWidth |-> TRUE,
     targetWidth |-> 0,
     allowUpscale |-> TRUE,
     backgroundColor |-> Transparent,
     format |-> "png",
     destinationBucket |-> "",
     destinationKey |-> "",
     outputBinary |-> TRUE,
     binaryPropertyName |-> "data"]

\* All sequences over S of length 0..n
SeqsUpTo(S, n) == UNION {[1..k -> S] : k \in 0..n}

\* What a get can deliver: no object, bytes that do not decode, or an image
\* (an image whose metadata lacks a dimension has that dimension 0)
Missing == [status |-> "missing", width |-> 0, height |-> 0]
Corrupt == [status |-> "corrupt", width |-> 0, height |-> 0]
Image(w, h) == [status |-> "image", width |-> w, height |-> h]

----------------------------------------------------------------------------
(* The batch loop *)

Req == items[itemIndex + 1]

\* destinationBucket && destinationKey
ShouldUploadBucketOnly(r) == r.destinationBucket # ""
ShouldUpload(r) == r.destinationBucket # "" /\ r.destinationKey # ""

\* The record pushed for a failed item
ErrorItemUntagged(error, idx) == [kind |-> "error", message |-> error.message, pairedItem |-> 0]
ErrorItem(error, idx) == [kind |-> "error", message |-> error.message, pairedItem |-> idx]

\* The error propagated for a failed item: an error with a context gets
\* context.itemIndex set, any other is wrapped in a NodeOperationError
RethrowUnwrapped(error, idx) == [message |-> error.message, itemIndex |-> error.itemIndex]
Rethrow(error, idx) ==
    IF error.context
    THEN [message |-> error.message, itemIndex |-> idx]
    ELSE [message |-> error.message, itemIndex |-> idx]

\* new NodeOperationError(node, message, { itemIndex }) and an error of a callee
NodeOperationError(message, idx) == [message |-> message, context |-> TRUE, itemIndex |-> idx]
ExternalError(message) == [message |-> message, context |-> FALSE, itemIndex |-> 0 - 1]

\* The record pushed for a stitched item
NewItem(r, ks, cw, ch) ==
    [kind |-> "result",
     json |-> [sourceBucket |-> r.sourceBucket,
               sourceKeys |-> ks,
               canvas |-> [width |-> cw, height |-> ch],
               uploaded |-> IF ShouldUpload(r)
                            THEN <<[bucket |-> r.destinationBucket,
                                    key |-> r.destinationKey,
                                    etag |-> "etag"]>>
                            ELSE <<>>],
     binary |-> IF r.outputBinary
                THEN <<[property |-> r.binaryPropertyName,
                        mimeType |-> MimeType(r.format),
                        fileName |-> FileName(r)]>>
                ELSE <<>>]

\* Whether the loop goes on after a failure
Continues == continueOnFail

\* The catch block
Catch(error) ==
    IF Continues
    THEN /\ returnData' = Append(returnData, ErrorItem(error, itemIndex))
         /\ itemIndex' = itemIndex + 1
         /\ pc' = "item"
         /\ UNCHANGED thrown
    ELSE /\ thrown' = <<Rethrow(error, itemIndex)>>
         /\ pc' = "done"
         /\ UNCHANGED <<returnData, itemIndex>>

\* Whether the read of an object's metadata throws
MetadataUnreadableWidthOnly(obj) == obj.width = 0
MetadataUnreadable(obj) == obj.width = 0 \/ obj.height = 0

FaultChoices == IF env.faults THEN BOOLEAN ELSE {FALSE}

\* Top of the loop body: read the parameters, parse the keys, validate
BeginItem ==
    /\ pc = "item"
    /\ itemIndex < Len(items)
    /\ LET ks == ParseKeys(Req.sourceKeys)
       IN  /\ keys' = ks
           /\ dimensions' = <<>>
           /\ canvasWidth' = 0
           /\ canvasHeight' = 0
           /\ composites' = <<>>
           /\ offsetTop' = 0
           /\ bg' = <<>>
           /\ IF Req.sourceBucket = ""
              THEN Catch(NodeOperationError("Source bucket is required", itemIndex))
              ELSE IF Len(ks) = 0
              THEN Catch(NodeOperationError("At least one source key is required", itemIndex))
              ELSE /\ pc' = "fetch"
                   /\ UNCHANGED <<returnData, itemIndex, thrown>>
    /\ UNCHANGED <<items, continueOnFail, env, storeLog, returned>>

\* One iteration of the fetch loop: getObject, streamToBuffer, metadata
FetchKey ==
    /\ pc = "fetch"
    /\ \E obj \in env.objects :
         LET k == Len(dimensions) + 1
         IN  /\ storeLog' = Append(storeLog,
                   [op |-> "get", item |-> itemIndex, pos |-> k,
                    bucket |-> Req.sourceBucket, key |-> keys[k], answer |-> obj])
             /\ IF obj.status = "missing"
                THEN /\ Catch(ExternalError("getObject failed"))
                     /\ UNCHANGED dimensions
                ELSE IF obj.status = "corrupt"
                THEN /\ Catch(ExternalError("unsupported image format"))
                     /\ UNCHANGED dimensions
                ELSE IF MetadataUnreadable(obj)
                THEN /\ Catch(NodeOperationError("Could not read image metadata", itemIndex))
                     /\ UNCHANGED dimensions
                ELSE /\ dimensions' = Append(dimensions,
                                             [width |-> obj.width, height |-> obj.height])
                     /\ pc' = IF k = Len(keys) THEN "compose" ELSE "fetch"
                     /\ UNCHANGED <<returnData, itemIndex, thrown>>
    /\ UNCHANGED <<items, continueOnFail, env, keys, canvasWidth, canvasHeight, bg,
                   composites, offsetTop, returned>>

\* Normalize the widths, size the canvas, place the images, encode
Compose ==
    /\ pc = "compose"
    /\ \E fail \in FaultChoices :
         LET widest == MaxSourceWidth(dimensions)
             targetWidth == TargetWidth(Req, widest)
             dims == Normalize(Req, dimensions, targetWidth)
             cw == IF Req.normalizeWidth THEN targetWidth ELSE widest
             placed == Place(Req, dims, cw)
         IN  /\ dimensions' = dims
             /\ canvasWidth' = cw
             /\ canvasHeight' = CanvasHeight(dims, Len(keys), Req.spacing)
             /\ bg' = <<parseBackgroundColor(Req.backgroundColor)>>
             /\ composites' = placed.composites
             /\ offsetTop' = placed.offsetTop
             /\ IF fail
                THEN Catch(ExternalError("imaging failed"))
                ELSE /\ pc' = "publish"
                     /\ UNCHANGED <<returnData, itemIndex, thrown>>
    /\ UNCHANGED <<items, continueOnFail, env, keys, storeLog, returned>>

\* putObject when a destination is given, then push the record
Publish ==
    /\ pc = "publish"
    /\ \E fail \in FaultChoices :
         /\ storeLog' = IF ShouldUpload(Req)
                        THEN Append(storeLog,
                               [op |-> "put", item |-> itemIndex, pos |-> 0,
                                bucket |-> Req.destinationBucket,
                                key |-> Req.destinationKey, answer |-> Missing])
                        ELSE storeLog
         /\ IF ShouldUpload(Req) /\ fail
            THEN Catch(ExternalError("putObject failed"))
            ELSE /\ returnData' = Append(returnData,
                                         NewItem(Req, keys, canvasWidth, canvasHeight))
                 /\ itemIndex' = itemIndex + 1
                 /\ pc' = "item"
                 /\ UNCHANGED thrown
    /\ UNCHANGED <<items, continueOnFail, env, keys, dimensions, canvasWidth,
                   canvasHeight, bg, composites, offsetTop, returned>>

\* return [returnData]
Return ==
    /\ pc = "item"
    /\ itemIndex >= Len(items)
    /\ pc' = "done"
    /\ returned' = TRUE
    /\ UNCHANGED <<items, continueOnFail, env, itemIndex, keys, dimensions, canvasWidth,
                   canvasHeight, bg, composites, offsetTop, returnData, storeLog, thrown>>

Next == BeginItem \/ FetchKey \/ Compose \/ Publish \/ Return

\* The state when the loop is entered
InitLoop ==
    /\ pc = "item"
    /\ itemIndex = 0
    /\ keys = <<>>
    /\ dimensions = <<>>
    /\ canvasWidth = 0
    /\ canvasHeight = 0
    /\ bg = <<>>
    /\ composites = <<>>
    /\ offsetTop = 0
    /\ returnData = <<>>
    /\ storeLog = <<>>
    /\ thrown = <<>>
    /\ returned = FALSE

----------------------------------------------------------------------------
(* Batches: up to MaxItems requests that differ in what decides failure and   *)
(* upload; every get, decode, encode and put can fail.                        *)

BatchRequests ==
    {[DefaultRequest EXCEPT !.sourceKeys = StrParam(<<"a", ",", "b">>),
                            !.destinationBucket = d[1], !.destinationKey = d[2]] :
        d \in {<<"", "o.png">>, <<"out", "">>, <<"out", "o.png">>}}
    \cup {[DefaultRequest EXCEPT !.sourceBucket = ""],
          [DefaultRequest EXCEPT !.sourceKeys = StrParam(<<",">>)]}

Init ==
    /\ items \in SeqsUpTo(BatchRequests, MaxItems)
    /\ continueOnFail \in BOOLEAN
    /\ env = [objects |-> {Missing, Image(1, 0), Image(1, 1)}, faults |-> TRUE]
    /\ InitLoop

Spec == Init /\ [][Next]_vars

----------------------------------------------------------------------------
(* Properties of the batch loop *)

\* What the claims read off the store log
LogIndexes == 1..Len(storeLog)
PutsOf(i) == {a \in LogIndexes : storeLog[a].op = "put" /\ storeLog[a].item = i}
GetsOfBefore(i, b) == {a \in 1..(b - 1) : storeLog[a].op = "get" /\ storeLog[a].item = i}
FetchFailed(obj) == obj.status # "image" \/ obj.width = 0 \/ obj.height = 0
FailedGetsOf(i) ==
    {a \in LogIndexes : /\ storeLog[a].op = "get"
                        /\ storeLog[a].item = i
                        /\ FetchFailed(storeLog[a].answer)}
HasDestination(r) == r.destinationBucket # "" /\ r.destinationKey # ""

\* C1: with continue-on-failure the run never propagates an error, it can only
\* end by returning one record per request, and the record at position i is
\* request i's: an error placeholder tagged with i when a fetch or the
\* validation of request i failed, else a result record naming its bucket.
C1_ContinueKeepsPositions ==
    continueOnFail =>
        /\ thrown = <<>>
        /\ Len(returnData) = itemIndex
        /\ (pc = "done" => returned /\ Len(returnData) = Len(items))
        /\ \A i \in 1..Len(returnData) :
             LET rec == returnData[i]
                 r == items[i]
             IN  /\ rec.kind \in {"error", "result"}
                 /\ rec.kind = "error" => rec.pairedItem = i - 1
                 /\ rec.kind = "result" =>
                       /\ rec.json.sourceBucket = r.sourceBucket
                       /\ r.sourceBucket # ""
                       /\ rec.json.sourceKeys # <<>>
                       /\ FailedGetsOf(i - 1) = {}
                 /\ (r.sourceBucket = "" \/ FailedGetsOf(i - 1) # {}) => rec.kind = "error"

C1_Witness ==
    /\ continueOnFail
    /\ returned
    /\ Len(returnData) = 3
    /\ returnData[1].kind = "result"
    /\ returnData[2].kind = "error"
    /\ FailedGetsOf(1) # {}
    /\ returnData[3].kind = "result"

\* C2: without continue-on-failure the first failing request i ends the run:
\* the propagated error carries i, every earlier request has its result record,
\* no store call belongs to a later request and nothing is returned; in every
\* run the store calls are issued in request order.
C2_AbortOnFirstFailure ==
    /\ \A a, b \in LogIndexes : a < b => storeLog[a].item <= storeLog[b].item
    /\ ~continueOnFail =>
          /\ \A i \in 1..Len(returnData) : returnData[i].kind = "result"
          /\ returned => thrown = <<>>
          /\ thrown # <<>> =>
                /\ ~returned
                /\ pc = "done"
                /\ thrown[1].itemIndex = itemIndex
                /\ Len(returnData) = itemIndex
                /\ \A a \in LogIndexes : storeLog[a].item <= itemIndex

C2_Witness ==
    /\ ~continueOnFail
    /\ thrown # <<>>
    /\ itemIndex = 1
    /\ Len(items) = 3
    /\ items[3].sourceBucket # ""
    /\ ParseKeys(items[3].sourceKeys) # <<>>
    /\ FailedGetsOf(1) # {}

\* C3: once a get of a request failed (no object, undecodable bytes or no
\* dimensions) that request issues no further get and no put and has no result
\* record; a put is issued only after the gets of all the request's keys, in
\* key order, have all succeeded, and so is a result record.
C3_AllOrNothing ==
    /\ \A a \in LogIndexes :
         (storeLog[a].op = "get" /\ FetchFailed(storeLog[a].answer)) =>
            /\ \A b \in LogIndexes : b > a => storeLog[b].item # storeLog[a].item
            /\ Len(returnData) > storeLog[a].item =>
                  returnData[storeLog[a].item + 1].kind = "error"
    /\ \A b \in LogIndexes :
         storeLog[b].op = "put" =>
            LET i == storeLog[b].item
                n == Len(ParseKeys(items[i + 1].sourceKeys))
                gets == GetsOfBefore(i, b)
            IN  /\ Cardinality(gets) = n
                /\ {storeLog[a].pos : a \in gets} = 1..n
                /\ \A a \in gets : ~FetchFailed(storeLog[a].answer)
                /\ \A a1, a2 \in gets : a1 < a2 => storeLog[a1].pos < storeLog[a2].pos
    /\ \A i \in 1..Len(returnData) :
         returnData[i].kind = "result" =>
            LET gets == GetsOfBefore(i - 1, Len(storeLog) + 1)
            IN  /\ Cardinality(gets) = Len(returnData[i].json.sourceKeys)
                /\ \A a \in gets : ~FetchFailed(storeLog[a].answer)

C3_Witness ==
    /\ pc = "done"
    /\ Len(items) = 2
    /\ PutsOf(0) # {}
    /\ Len(returnData) = 2
    /\ returnData[2].kind = "error"
    /\ HasDestination(items[2])
    /\ Len(ParseKeys(items[2].sourceKeys)) = 2
    /\ \E a \in FailedGetsOf(1) : storeLog[a].pos = 1 /\ storeLog[a].answer.status = "image"

\* C8: a request issues at most one put, and only to its own non-empty
\* destination bucket and key; a request that has a result record issued its
\* put exactly when both are non-empty, and its record then names that bucket
\* and key, and carries no uploaded descriptor otherwise.
C8_UploadIffDestination ==
    \A i \in 1..Len(items) :
        LET r == items[i]
            puts == PutsOf(i - 1)
        IN  /\ Cardinality(puts) <= 1
            /\ \A b \in puts : /\ storeLog[b].bucket = r.destinationBucket
                               /\ storeLog[b].key = r.destinationKey
                               /\ r.destinationBucket # ""
                               /\ r.destinationKey # ""
            /\ (i <= Len(returnData) /\ returnData[i].kind = "result") =>
                  IF HasDestination(r)
                  THEN /\ Cardinality(puts) = 1
                       /\ Len(returnData[i].json.uploaded) = 1
                       /\ returnData[i].json.uploaded[1].bucket = r.destinationBucket
                       /\ returnData[i].json.uploaded[1].key = r.destinationKey
                  ELSE /\ puts = {}
                       /\ returnData[i].json.uploaded = <<>>

C8_Witness ==
    /\ returned
    /\ Len(returnData) = 3
    /\ \A i \in 1..3 : returnData[i].kind = "result"
    /\ HasDestination(items[1])
    /\ items[2].destinationBucket # "" /\ items[2].destinationKey = ""
    /\ items[3].destinationBucket = ""
    /\ Cardinality(PutsOf(0)) = 1 /\ PutsOf(1) = {} /\ PutsOf(2) = {}

----------------------------------------------------------------------------
(* Layout: one request over every combination of the layout parameters and  *)
(* of the images the store delivers.                                         *)

LayoutRequests ==
    {[DefaultRequest EXCEPT !.sourceKeys = ArrayParam(ks), !.spacing = sp,
                            !.alignment = al, !.normalizeWidth = nw,
                            !.targetWidth = tw, !.allowUpscale = au] :
        ks \in UNION {[1..n -> {<<"a">>}] : n \in 1..MaxKeys},
        sp \in (0 - 1)..MaxSpacing,
        al \in {"left", "center", "right"},
        nw \in BOOLEAN,
        tw \in (0 - 1)..(MaxWidth + 1),
        au \in BOOLEAN}

InitLayout ==
    /\ items \in {<<r>> : r \in LayoutRequests}
    /\ continueOnFail = TRUE
    /\ env = [objects |-> {Corrupt} \cup {Image(w, h) : w \in 1..MaxWidth, h \in 1..MaxHeight},
              faults |-> FALSE]
    /\ InitLoop

SpecLayout == InitLayout /\ [][Next]_vars

\* The step that normalizes, lays out and encodes one request
ComposeStep == pc = "compose" /\ pc' = "publish"

RECURSIVE HeightsBefore(_, _)
HeightsBefore(dims, i) == IF i <= 1 THEN 0 ELSE HeightsBefore(dims, i - 1) + dims[i - 1].height

\* C4: for spacing >= 0 the canvas height of a composed request is the sum of
\* the normalized heights plus spacing * (n - 1), and the running offset after
\* the last image is exactly the canvas height.
C4_CanvasHeightExact ==
    (pc = "publish" /\ Req.spacing >= 0) =>
        LET n == Len(dimensions)
        IN  /\ n >= 1
            /\ n = Len(keys)
            /\ canvasHeight = HeightsBefore(dimensions, n + 1) + Req.spacing * (n - 1)
            /\ offsetTop = canvasHeight
            /\ composites[n].top + dimensions[n].height = canvasHeight

C4_Witness ==
    /\ pc = "publish"
    /\ Len(dimensions) = 2
    /\ Req.spacing = 1
    /\ dimensions[1].height # dimensions[2].height
    /\ canvasHeight = 4

\* C5: in a composed request the first image has top 0, the top of image i is
\* the sum of the heights before it plus (i - 1) spacings, the tops do not
\* decrease and image i + 1 starts at or below the bottom of image i.
C5_NoOverlap ==
    pc = "publish" =>
        /\ composites[1].top = 0
        /\ \A i \in 1..Len(composites) :
              composites[i].top = HeightsBefore(dimensions, i) + (i - 1) * Req.spacing
        /\ \A i \in 1..(Len(composites) - 1) :
              /\ composites[i + 1].top >= composites[i].top
              /\ composites[i + 1].top >= composites[i].top + dimensions[i].height

\* The widest source is a source width no source exceeds
IsWidest(w, dims) ==
    /\ \E i \in 1..Len(dims) : dims[i].width = w
    /\ \A i \in 1..Len(dims) : dims[i].width <= w

\* C6 as stated: with normalizeWidth and targetWidth = 0 the canvas is as wide
\* as the widest source and every placed image is as wide as the canvas,
\* whatever allowUpscale is.
C6_AllWidthsEqualCanvas ==
    [][(ComposeStep /\ Req.normalizeWidth /\ Req.targetWidth = 0) =>
          /\ IsWidest(canvasWidth', dimensions)
          /\ \A i \in 1..Len(dimensions') : dimensions'[i].width = canvasWidth']_vars

\* C6 amended: with normalizeWidth and targetWidth = 0 the canvas is as wide as
\* the widest source whatever allowUpscale is; every placed image is as wide
\* as the canvas when allowUpscale is true, and keeps its source dimensions
\* (no wider than the canvas) when allowUpscale is false.
C6_WidthsEqualCanvasWhenUpscaling ==
    [][(ComposeStep /\ Req.normalizeWidth /\ Req.targetWidth = 0) =>
          /\ IsWidest(canvasWidth', dimensions)
          /\ Len(dimensions') = Len(dimensions)
          /\ Req.allowUpscale =>
                \A i \in 1..Len(dimensions') : dimensions'[i].width = canvasWidth'
          /\ ~Req.allowUpscale =>
                \A i \in 1..Len(dimensions') :
                    /\ dimensions'[i] = dimensions[i]
                    /\ dimensions'[i].width <= canvasWidth']_vars

C6_Witness ==
    /\ pc = "publish"
    /\ Req.normalizeWidth
    /\ Req.targetWidth = 0
    /\ ~Req.allowUpscale
    /\ Len(dimensions) = 2
    /\ dimensions[1].width < canvasWidth
    /\ dimensions[2].width = canvasWidth

\* C7: composing a request leaves no placed image wider than the canvas, puts
\* every image at left = 0 (left), floor((canvasWidth - width) / 2) (center) or
\* canvasWidth - width (right), within 0 <= left and left + width <=
\* canvasWidth, and with normalization on and allowUpscale off leaves an image
\* narrower than the target as it was.
C7_ImagesFitCanvas ==
    [][ComposeStep =>
          /\ Len(composites') = Len(dimensions')
          /\ \A i \in 1..Len(dimensions') :
               LET w == dimensions'[i].width
                   left == composites'[i].left
               IN  /\ w <= canvasWidth'
                   /\ 0 <= left
                   /\ left + w <= canvasWidth'
                   /\ Req.alignment = "left" => left = 0
                   /\ Req.alignment = "center" =>
                         (2 * left <= canvasWidth' - w /\ canvasWidth' - w < 2 * left + 2)
                   /\ Req.alignment = "right" => left = canvasWidth' - w
          /\ (Req.normalizeWidth /\ ~Req.allowUpscale) =>
                \A i \in 1..Len(dimensions) :
                    dimensions[i].width < canvasWidth' => dimensions'[i] = dimensions[i]]_vars

C7_Witness ==
    /\ pc = "publish"
    /\ Req.normalizeWidth
    /\ ~Req.allowUpscale
    /\ Req.targetWidth = 3
    /\ Req.alignment = "center"
    /\ Len(dimensions) = 2
    /\ dimensions[1].width = 2
    /\ dimensions[2].width = 1
    /\ canvasWidth = 3
    /\ composites[1].left = 0
    /\ composites[2].left = 1

----------------------------------------------------------------------------
(* Key parsing: one request over every short sourceKeys value.              *)

KeyAlphabet == {"a", "b", ",", " ", "\n", "\r"}
ElemAlphabet == {"a", " "}
ListElems == SeqsUpTo(ElemAlphabet, MaxElemLen) \cup {<<"a", ",", "a">>, <<",">>}

KeyParams ==
    {StrParam(str) : str \in SeqsUpTo(KeyAlphabet, MaxStrLen)}
    \cup {ArrayParam(l) : l \in SeqsUpTo(ListElems, MaxListLen)}
    \cup {ObjectParam(<<<<" ", "a">>, <<>>, <<"b">>>>), NumberParam(7), NumberParam(42),
          NullParam}

InitKeys ==
    /\ items \in {<<[DefaultRequest EXCEPT !.sourceBucket = b, !.sourceKeys = p]>> :
                    b \in {"", "src"}, p \in KeyParams}
    /\ continueOnFail \in BOOLEAN
    /\ env = [objects |-> {Image(1, 1)}, faults |-> FALSE]
    /\ InitLoop

SpecKeys == InitKeys /\ [][Next]_vars

\* The entries of a sourceKeys value, stated by position.  In a string the
\* separators are the commas and the newlines, and a field lies between two
\* consecutive separators (or an end of the string); in a list every element
\* is a field.  A field with a character that is no white space is an entry,
\* and its trimmed text runs from its first such character to its last.
Separators(str) == {i \in 1..Len(str) : str[i] \in {",", "\n"}} \cup {0, Len(str) + 1}

Fields(p) ==
    IF p.kind = "string"
    THEN {[text |-> p.str, lo |-> a + 1, hi |-> b - 1, at |-> a] :
            <<a, b>> \in {f \in Separators(p.str) \X Separators(p.str) :
                            /\ f[1] < f[2]
                            /\ \A c \in Separators(p.str) : ~(f[1] < c /\ c < f[2])}}
    ELSE {[text |-> p.list[i], lo |-> 1, hi |-> Len(p.list[i]), at |-> i] :
            i \in 1..Len(p.list)}

Inked(f) == {j \in f.lo..f.hi : f.text[j] \notin Whitespace}
Entries(p) == {f \in Fields(p) : Inked(f) # {}}
Least(S) == CHOOSE x \in S : \A y \in S : x <= y
Greatest(S) == CHOOSE x \in S : \A y \in S : x >= y
EntryText(f) == SubSeq(f.text, Least(Inked(f)), Greatest(Inked(f)))
EntryRank(p, f) == Cardinality({g \in Entries(p) : g.at <= f.at})

IsEntriesOf(p, ks) ==
    /\ Len(ks) = Cardinality(Entries(p))
    /\ \A f \in Entries(p) : ks[EntryRank(p, f)] = EntryText(f)

ValidationMessages == {"Source bucket is required", "At least one source key is required"}

\* C9: for a list or a string sourceKeys value the parsed keys, and the
\* sourceKeys of the result record, are the trimmed non-empty entries in input
\* order, duplicates kept; a request with an empty source bucket or no entry
\* fails with a validation error and issues no get and no put.
C9_KeysAreTrimmedEntries ==
    \A i \in 1..Len(items) :
        LET p == items[i].sourceKeys
        IN  p.kind \in {"array", "string"} =>
              /\ (itemIndex = i - 1 /\ pc \in {"fetch", "compose", "publish"}) =>
                    IsEntriesOf(p, keys)
              /\ (i <= Len(returnData) /\ returnData[i].kind = "result") =>
                    IsEntriesOf(p, returnData[i].json.sourceKeys)
              /\ (items[i].sourceBucket = "" \/ Entries(p) = {}) =>
                    /\ \A a \in LogIndexes : storeLog[a].item # i - 1
                    /\ ~(itemIndex = i - 1 /\ pc \in {"fetch", "compose", "publish"})
                    /\ i <= Len(returnData) =>
                          /\ returnData[i].kind = "error"
                          /\ returnData[i].message \in ValidationMessages
                    /\ (thrown # <<>> /\ itemIndex = i - 1) =>
                          thrown[1].message \in ValidationMessages

C9_Witness ==
    /\ returned
    /\ items[1].sourceKeys.kind = "string"
    /\ items[1].sourceKeys.str = <<" ", "b", ",", "a">>
    /\ Len(returnData) = 1
    /\ returnData[1].kind = "result"
    /\ returnData[1].json.sourceKeys = <<<<"b">>, <<"a">>>>

----------------------------------------------------------------------------
(* Background colour: one request over short strings and hex-like strings.  *)

ColorAlphabet == {"#", "0", "f", "z", " "}

ColorInputs ==
    SeqsUpTo(ColorAlphabet, MaxColorLen)
    \cup {Transparent, <<"T", "R", "A", "N", "S", "P", "A", "R", "E", "N", "T">>}
    \cup [1..6 -> {"0", "f", "z"}]
    \cup {<<"#">> \o h : h \in [1..6 -> {"0", "f", "z"}]}
    \cup {<<"#">> \o h : h \in [1..8 -> {"0", "f"}]}
    \cup {<<"#">> \o h \o <<"8", "0">> : h \in [1..6 -> {"0", "z"}]}

InitColor ==
    /\ items \in {<<[DefaultRequest EXCEPT !.backgroundColor = c]>> : c \in ColorInputs}
    /\ continueOnFail = TRUE
    /\ env = [objects |-> {Image(1, 1)}, faults |-> FALSE]
    /\ InitLoop

SpecColor == InitColor /\ [][Next]_vars

AllHex(str, lo, hi) == \A j \in lo..hi : str[j] \in HexDigits
WellFormedHex(str) == Len(str) \in {7, 9} /\ str[1] = "#" /\ AllHex(str, 2, Len(str))
\* Six or eight hex digits once one '#' and the white space around are dropped
ReadableAsHex(str) ==
    LET hex == Trim(RemoveFirstHash(str))
    IN  Len(hex) \in {6, 8} /\ AllHex(hex, 1, Len(hex))
Channel(str, j) == Num(16 * HexValue(str[j]) + HexValue(str[j + 1]))
White == [r |-> Num(255), g |-> Num(255), b |-> Num(255), a255 |-> Num(255)]
TransparentBlack == [r |-> Num(0), g |-> Num(0), b |-> Num(0), a255 |-> Num(0)]

\* C10: the parsed background is transparent black for an omitted value or
\* "transparent", the channel values for a well-formed #RRGGBB or #RRGGBBAA
\* (alpha 1 for six digits), and opaque white for every malformed input.
\* (Inputs that are six or eight hex digits up to a missing or misplaced '#'
\* or surrounding white space are left open here.)
C10_MalformedIsWhite ==
    (pc = "publish") =>
        LET c == Req.backgroundColor
        IN  /\ (c = <<>> \/ c = Transparent) => bg[1] = TransparentBlack
            /\ WellFormedHex(c) =>
                  bg[1] = [r |-> Channel(c, 2), g |-> Channel(c, 4), b |-> Channel(c, 6),
                           a255 |-> IF Len(c) = 9 THEN Channel(c, 8) ELSE Num(255)]
            /\ (c # <<>> /\ ToLowerCase(c) # Transparent /\ ~ReadableAsHex(c)) => bg[1] = White

====
